---- MODULE Spec2Model ----
(***************************************************************************)
(* Differential Evolution (DE/rand/1/bin) of main.ipynb, with its          *)
(* parameter check, its donor sampler and the random-search baseline.      *)
(*                                                                         *)
(* Reals are modelled by integers.  Probabilities (CR, randb[k]) are       *)
(* fixed-point numbers with denominator Unit, so CR = Unit is 1.0.         *)
(* numpy arrays are objects: mem maps an array name to its contents and    *)
(* the program variables x and x_g hold array names, so that the           *)
(* assignment x = x_g binds both names to one array.                       *)
(*                                                                         *)
(* Four specifications share the variables:                                *)
(*   Spec      a call of differential_evolution                            *)
(*   SpecPick  a call of pick_rand_idx, one random draw per step           *)
(*   SpecCP    a call of check_param                                       *)
(*   SpecRS    a call of rand_search                                       *)
(***************************************************************************)
EXTENDS Integers, Sequences, FiniteSets, TLC

\* ---- bounds of the model ------------------------------------------------
MaxNP == 4
MaxGen == 2
MaxUb == 1
Unit == 2

\* ---- program constants --------------------------------------------------
MinNP == 4
MaxF == 2
DefaultD == 2

VARIABLES
    NP, f, CR, F, max_gen, d, obj_bounds,   \* arguments of the call
    ty, cp_result,                          \* check_param: Python types of the
                                            \* arguments, outcome of the call
    mem, x, x_g, u,                         \* arrays and the names bound to them
    n_gen, i, k, rnbr, randb,               \* loop state
    r1, r2, r3,                             \* locals of pick_rand_idx / mutate_at_pos
    idx_best, ret,                          \* result
    best_sol, best_score,                   \* rand_search: running best
    pc,                                     \* position in the running function
    xprev, visits,                          \* history: population at the start of
                                            \* the sweep (initially the initial
                                            \* population), number of selections
                                            \* made at each index so far
    init_fit,                               \* history: least fitness in the initial
                                            \* population
    rs_first, rs_drawn                      \* history of rand_search: member 0 of
                                            \* the initial population and the least
                                            \* fitness of its other members; the
                                            \* least fitness drawn in the loop

args == <<NP, f, CR, F, max_gen, d, obj_bounds>>
cpv == <<ty, cp_result>>
arrays == <<mem, x, x_g, u>>
loopv == <<n_gen, i, k, rnbr, randb>>
donors == <<r1, r2, r3>>
result == <<idx_best, ret>>
hist == <<xprev, visits, init_fit>>
rsv == <<best_sol, best_score, rs_first, rs_drawn>>
vars == <<args, cpv, arrays, loopv, donors, result, pc, hist, rsv>>

\* ---- objective functions ------------------------------------------------
\* rosenbrock(x): ros += 100*(x[i+1]-x[i]*x[i])**2+(1-x[i])**2
\* for i in range(d-1)
RECURSIVE RosenbrockSum(_, _)
RosenbrockSum(v, n) ==
    IF n <= 0 THEN 0
    ELSE RosenbrockSum(v, n - 1)
         + 100 * (v[n] - v[n - 1] * v[n - 1]) * (v[n] - v[n - 1] * v[n - 1])
         + (1 - v[n - 1]) * (1 - v[n - 1])

Rosenbrock(v, dim) == RosenbrockSum(v, dim - 1)

\* a caller-supplied objective: the sum of squares
RECURSIVE SphereSum(_, _)
SphereSum(v, n) ==
    IF n <= 0 THEN 0 ELSE SphereSum(v, n - 1) + v[n - 1] * v[n - 1]

Sphere(v, dim) == SphereSum(v, dim)

Fitness(fn, v, dim) ==
    IF fn = "rosenbrock" THEN Rosenbrock(v, dim) ELSE Sphere(v, dim)

\* ---- init_population ----------------------------------------------------
\* np.random.rand(NP,d)*(ub-lb)+lb : every component in [lb, ub)
init_population(n, dim, lb, ub) ==
    [0 .. n - 1 -> [0 .. dim - 1 -> lb .. ub - 1]]

Zeros(n, dim) == [a \in 0 .. n - 1 |-> [b \in 0 .. dim - 1 |-> 0]]

\* ---- pick_rand_idx ------------------------------------------------------
\* (mutation of RandInt: the upper end is one too low)
RandIntShort(n) == 0 .. n - 2

\* np.random.randint(0,NP)
RandInt(n) == 0 .. n - 1

\* the three while conditions
Loop1(a, t) == a = t
Loop2(b, a, t) == (b = a) \/ (b = t)
\* (mutation of Loop3: r3 is not compared with r1)
Loop3NoR1(c, b, a, t) == (c = b) \/ (c = t)

Loop3(c, b, a, t) == (c = b) \/ (c = a) \/ (c = t)

\* the triples a completed call can return: each loop is left with a drawn
\* value for which its condition is false
pick_rand_idx(t, n) ==
    { tr \in RandInt(n) \X RandInt(n) \X RandInt(n) :
        /\ ~Loop1(tr[1], t)
        /\ ~Loop2(tr[2], tr[1], t)
        /\ ~Loop3(tr[3], tr[2], tr[1], t) }

\* ---- mutate_at_pos ------------------------------------------------------
Mut(pop, w, a, b, c, kk) == pop[a][kk] + w * (pop[b][kk] - pop[c][kk])

\* ---- selection and result -----------------------------------------------
\* (mutation of TrialWins: a trial that is only as fit replaces the target)
TrialWinsOnTie(fu, fx) == fu <= fx

\* (mutation of TrialWins: the trial always replaces the target)
TrialAlwaysWins(fu, fx) == TRUE

TrialWins(fu, fx) == fu < fx

\* (mutation of ArgMin: the last index of the minimum)
RECURSIVE ArgMinLastFrom(_, _, _, _)
ArgMinLastFrom(fit, n, j, best) ==
    IF j >= n THEN best
    ELSE ArgMinLastFrom(fit, n, j + 1, IF fit[j] <= fit[best] THEN j ELSE best)

ArgMinLast(fit, n) == ArgMinLastFrom(fit, n, 1, 0)

\* np.argmin: the first index of the minimum
RECURSIVE ArgMinFrom(_, _, _, _)
ArgMinFrom(fit, n, j, best) ==
    IF j >= n THEN best
    ELSE ArgMinFrom(fit, n, j + 1, IF fit[j] < fit[best] THEN j ELSE best)

ArgMin(fit, n) == ArgMinFrom(fit, n, 1, 0)

\* the array the name x is bound to
Cur == mem[x]

\* the least fitness in population pop
MinFitness(pop) ==
    LET fits == { Fitness(f, pop[j], d) : j \in DOMAIN pop }
    IN  CHOOSE m \in fits : \A n \in fits : m <= n

\* ---- differential_evolution ---------------------------------------------
\* (mutation of LoopCond: one generation too many)
LoopCondInclusive(n, m) == n <= m

\* the condition of the generation loop: while (n_gen<max_gen)
LoopCond(n, m) == n < m

\* (mutation of Crosses: no dimension is forced to mutate)
CrossesByChance == randb[k] < CR

\* (mutation of Crosses: a random number equal to CR crosses too)
CrossesInclusive == (k = rnbr) \/ (randb[k] <= CR)

\* if (k==rnbr) or (randb[k]<CR)
Crosses == (k = rnbr) \/ (randb[k] < CR)

\* The calls that are explored.
\*  - One-dimensional problems, with every legal population size and F of
\*    the bounds, both objectives and 0 .. MaxGen generations.  With d = 1
\*    the only dimension is rnbr, so CR decides nothing and is 1/Unit.
\*  - The calls that the parameter check would reject, one illegal argument
\*    at a time: NP = 3, CR = 1 + 1/Unit, F = 0, max_gen = -1.
\*  - The two-dimensional problem (the default d), with the smallest legal
\*    population, CR = 1/Unit, F = 1 and one generation; and the same call
\*    with CR = 0.
\* Initial components are the integers of [0, 2).
DECalls ==
    LET call(n, fn, cr, w, m, dim) ==
            [NP |-> n, f |-> fn, CR |-> cr, F |-> w, max_gen |-> m, d |-> dim,
             obj_bounds |-> <<0, 2>>]
    IN  { call(n, fn, 1, w, m, 1) :
            n \in MinNP .. MaxNP, fn \in {"rosenbrock", "sphere"},
            w \in 1 .. MaxF, m \in 0 .. MaxGen }
        \cup { call(MinNP - 1, "sphere", 1, 1, 1, 1),
               call(MinNP, "sphere", Unit + 1, 1, 1, 1),
               call(MinNP, "sphere", 1, 0, 1, 1),
               call(MinNP, "sphere", 1, 1, -1, 1) }
        \cup { call(MinNP, "rosenbrock", 1, 1, 1, DefaultD),
               call(MinNP, "rosenbrock", 0, 1, 1, DefaultD) }

DEArgs ==
    \E c \in DECalls :
        /\ NP = c.NP /\ f = c.f /\ CR = c.CR /\ F = c.F
        /\ max_gen = c.max_gen /\ d = c.d /\ obj_bounds = c.obj_bounds

Idle ==
    /\ ty = << >> /\ cp_result = "none"
    /\ mem = [a0 |-> << >>, g |-> << >>]
    /\ x = "a0" /\ x_g = "g" /\ u = << >>
    /\ n_gen = 0 /\ i = 0 /\ k = 0 /\ rnbr = 0 /\ randb = << >>
    /\ r1 = 0 /\ r2 = 0 /\ r3 = 0
    /\ idx_best = 0 /\ ret = << >>
    /\ best_sol = << >> /\ best_score = 0
    /\ xprev = << >> /\ visits = << >> /\ init_fit = 0
    /\ rs_first = << >> /\ rs_drawn = << >>

InitDE ==
    /\ DEArgs
    /\ Idle
    /\ pc = "start"

\* x = init_population(NP,d,*obj_bounds); u = zeros; x_g = zeros; n_gen = 0
\* (the call of check_param on line 202 is commented out)
DE_InitArrays ==
    /\ pc = "start"
    /\ \E p \in init_population(NP, d, obj_bounds[1], obj_bounds[2]) :
        /\ mem' = [a0 |-> p, g |-> Zeros(NP, d)]
        /\ xprev' = p
        /\ init_fit' = MinFitness(p)
    /\ x' = "a0"
    /\ x_g' = "g"
    /\ u' = Zeros(NP, d)
    /\ n_gen' = 0
    /\ visits' = [a \in 0 .. NP - 1 |-> 0]
    /\ pc' = "while"
    /\ UNCHANGED <<args, cpv, i, k, rnbr, randb, donors, result, rsv>>

\* while (n_gen<max_gen): for i in range(NP):
DE_WhileEnter ==
    /\ pc = "while"
    /\ LoopCond(n_gen, max_gen)
    /\ i' = 0
    /\ xprev' = Cur
    /\ pc' = "for_i"
    /\ UNCHANGED <<args, cpv, arrays, n_gen, k, rnbr, randb, donors, result, visits,
                   init_fit, rsv>>

\* rnbr = np.random.randint(d); randb = np.random.random(d); for k in range(d):
DE_DrawRand ==
    /\ pc = "for_i"
    /\ i < NP
    /\ rnbr' \in RandInt(d)
    /\ randb' \in [0 .. d - 1 -> 0 .. Unit - 1]
    /\ k' = 0
    /\ pc' = "for_k"
    /\ UNCHANGED <<args, cpv, arrays, n_gen, i, donors, result, hist, rsv>>

\* mutate_at_pos: r1,r2,r3 = pick_rand_idx(i,len(x))
DE_Pick ==
    /\ pc = "for_k"
    /\ k < d
    /\ Crosses
    /\ \E tr \in pick_rand_idx(i, Cardinality(DOMAIN Cur)) :
        /\ r1' = tr[1]
        /\ r2' = tr[2]
        /\ r3' = tr[3]
    /\ pc' = "mutate"
    /\ UNCHANGED <<args, cpv, arrays, loopv, result, hist, rsv>>

\* mut = x[r1][k]+F*(x[r2][k]-x[r3][k]); return mut; u[i][k] = mut
\* (r1, r2, r3 are locals of the returning call)
DE_Mutate ==
    /\ pc = "mutate"
    /\ u' = [u EXCEPT ![i][k] = Mut(Cur, F, r1, r2, r3, k)]
    /\ k' = k + 1
    /\ r1' = 0 /\ r2' = 0 /\ r3' = 0
    /\ pc' = "for_k"
    /\ UNCHANGED <<args, cpv, mem, x, x_g, n_gen, i, rnbr, randb, result, hist, rsv>>

\* else: u[i][k] = x[i][k]
DE_Copy ==
    /\ pc = "for_k"
    /\ k < d
    /\ ~Crosses
    /\ u' = [u EXCEPT ![i][k] = Cur[i][k]]
    /\ k' = k + 1
    /\ UNCHANGED <<args, cpv, mem, x, x_g, n_gen, i, rnbr, randb, donors, result,
                   pc, hist, rsv>>

\* After the selection at i nothing reads u[i], rnbr, randb or k again before
\* the code overwrites them (lines 213-222 of the next iteration), so the
\* model returns them to their initial values instead of carrying dead data.
EndOfTrial ==
    /\ u' = [u EXCEPT ![i] = [b \in 0 .. d - 1 |-> 0]]
    /\ k' = 0
    /\ rnbr' = 0
    /\ randb' = << >>

\* if f(u[i]) < f(x[i]): x_g[i] = u[i]
DE_SelectTrial ==
    /\ pc = "for_k"
    /\ k = d
    /\ TrialWins(Fitness(f, u[i], d), Fitness(f, Cur[i], d))
    /\ mem' = [mem EXCEPT ![x_g][i] = u[i]]
    /\ visits' = [visits EXCEPT ![i] = @ + 1]
    /\ i' = i + 1
    /\ EndOfTrial
    /\ pc' = "for_i"
    /\ UNCHANGED <<args, cpv, x, x_g, n_gen, donors, result, xprev, init_fit, rsv>>

\* else: x_g[i] = x[i]
DE_SelectTarget ==
    /\ pc = "for_k"
    /\ k = d
    /\ ~TrialWins(Fitness(f, u[i], d), Fitness(f, Cur[i], d))
    /\ mem' = [mem EXCEPT ![x_g][i] = Cur[i]]
    /\ visits' = [visits EXCEPT ![i] = @ + 1]
    /\ i' = i + 1
    /\ EndOfTrial
    /\ pc' = "for_i"
    /\ UNCHANGED <<args, cpv, x, x_g, n_gen, donors, result, xprev, init_fit, rsv>>

\* x = x_g; n_gen+=1
\* An array no name is bound to any more is garbage: its contents are dropped.
DE_EndSweep ==
    /\ pc = "for_i"
    /\ i >= NP
    /\ x' = x_g
    /\ mem' = [a \in DOMAIN mem |-> IF a = x_g THEN mem[a] ELSE << >>]
    /\ n_gen' = n_gen + 1
    /\ pc' = "while"
    /\ UNCHANGED <<args, cpv, x_g, u, i, k, rnbr, randb, donors, result, hist, rsv>>

\* fitnesses[i] = f(cand); idx_best = np.argmin(fitnesses); return x[idx_best]
DE_Return ==
    /\ pc = "while"
    /\ ~LoopCond(n_gen, max_gen)
    /\ LET fitnesses == [j \in 0 .. NP - 1 |-> Fitness(f, Cur[j], d)]
       IN  /\ idx_best' = ArgMin(fitnesses, NP)
           /\ ret' = Cur[idx_best']
    /\ pc' = "done"
    /\ UNCHANGED <<args, cpv, arrays, loopv, donors, hist, rsv>>

NextDE ==
    \/ DE_InitArrays
    \/ DE_WhileEnter
    \/ DE_DrawRand
    \/ DE_Pick
    \/ DE_Mutate
    \/ DE_Copy
    \/ DE_SelectTrial
    \/ DE_SelectTarget
    \/ DE_EndSweep
    \/ DE_Return

Spec == InitDE /\ [][NextDE]_vars

\* =================== properties of differential_evolution ================

\* C1: generations are synchronous: every donor value x[r][k] and every
\* target value x[i][k] read while trial vector i is built and selected is
\* the value that member had at the end of the previous generation.
SynchronousReads ==
    /\ pc = "mutate" => \A r \in {r1, r2, r3} : Cur[r][k] = xprev[r][k]
    /\ pc = "for_k" => Cur[i] = xprev[i]

\* the arguments of C2: NP=3, CR=1.5, F=0 or max_gen=-1
InvalidCall ==
    \/ NP = MinNP - 1
    \/ 2 * CR = 3 * Unit
    \/ F = 0
    \/ max_gen = -1

\* C2: a call with NP=3, or CR=1.5, or F=0, or max_gen=-1 is rejected before
\* any optimization work begins: it never gets past its first statement
\* other than into the rejection.
RejectedBeforeWork == InvalidCall => pc \in {"start", "rejected"}

\* the values mutate_at_pos can return for target t at dimension kk
MutationValues(t, kk) ==
    { Mut(Cur, F, tr[1], tr[2], tr[3], kk) :
        tr \in { q \in (0 .. NP - 1) \X (0 .. NP - 1) \X (0 .. NP - 1) :
                    Cardinality({q[1], q[2], q[3], t}) = 4 } }

\* C5 as stated: the finished trial vector differs from the target at rnbr.
TrialDiffersAtRnbr ==
    (pc = "for_k" /\ k = d) => u[i][rnbr] # Cur[i][rnbr]

\* C5 amended: in the finished trial vector the component at rnbr is a
\* mutation value x[r1][rnbr] + F*(x[r2][rnbr] - x[r3][rnbr]) of three donors
\* that are pairwise distinct and distinct from i; it is never taken over
\* from the target by the copy branch.
TrialMutatedAtRnbr ==
    (pc = "for_k" /\ k = d) => u[i][rnbr] \in MutationValues(i, rnbr)

\* a finished two-dimensional trial vector that equals its target
TrialEqualsTarget ==
    /\ pc = "for_k" /\ k = d /\ d = DefaultD
    /\ F > 0
    /\ u[i] = Cur[i]

\* C6: selection never degrades: once index j has been selected in a
\* generation, the member of the next generation at j is no less fit than
\* the member at j at the end of the previous generation, and it is a
\* different vector only when it is strictly fitter.
NeverDegrades ==
    \A j \in DOMAIN visits :
        visits[j] = n_gen + 1 \/ (pc \in {"while", "done"} /\ n_gen >= 1) =>
            LET new == mem[x_g][j]
                old == xprev[j]
            IN  /\ Fitness(f, new, d) <= Fitness(f, old, d)
                /\ new # old => Fitness(f, new, d) < Fitness(f, old, d)

\* the second generation has replaced a member
ReplacedInSecondSweep ==
    /\ pc = "while" /\ n_gen = 2
    /\ \E j \in 0 .. NP - 1 : Cur[j] # xprev[j]

ReturnsFirstBest ==
    pc = "done" =>
        /\ ret = Cur[idx_best]
        /\ \A j \in 0 .. NP - 1 : Fitness(f, ret, d) <= Fitness(f, Cur[j], d)
        /\ \A j \in 0 .. idx_best - 1 : Fitness(f, Cur[j], d) > Fitness(f, ret, d)

\* a call has returned a best member that is tied with a later member
ReturnedWithTie ==
    /\ pc = "done" /\ n_gen >= 1 /\ idx_best > 0
    /\ \E j \in idx_best + 1 .. NP - 1 :
        /\ Fitness(f, Cur[j], d) = Fitness(f, ret, d)
        /\ Cur[j] # ret

\* C12: the least fitness in the population at the end of a generation is
\* no greater than the least fitness in the population at the end of the
\* generation before it (the initial population for the first), so between
\* generations the least fitness in the population is no greater than the
\* least fitness in the initial population, and neither is the fitness of
\* the returned vector, for every max_gen.
PopulationElitism ==
    /\ [][pc = "for_i" /\ pc' = "while" =>
            MinFitness(mem'[x']) <= MinFitness(xprev)]_vars
    /\ [](pc \in {"while", "done"} => MinFitness(Cur) <= init_fit)
    /\ [](pc = "done" => Fitness(f, ret, d) <= init_fit)

\* a call has returned a vector that is fitter than every member of the
\* initial population
ReturnedFitterThanInitial ==
    /\ pc = "done" /\ n_gen >= 1 /\ n_gen = max_gen
    /\ Fitness(f, ret, d) < init_fit

\* whether dimension kk of the trial vector being built takes a mutation value
CrossesAt(kk) == (kk = rnbr) \/ (randb[kk] < CR)

\* the donor triples a call of pick_rand_idx for target t can return
FreshDonors(t) ==
    { q \in (0 .. NP - 1) \X (0 .. NP - 1) \X (0 .. NP - 1) :
        Cardinality({q[1], q[2], q[3], t}) = 4 }

\* C11: while trial vector i is built, every dimension kk already passed
\* holds a mutation value x[r1][kk] + F*(x[r2][kk] - x[r3][kk]) if kk = rnbr
\* or randb[kk] < CR, and the target's component x[i][kk] otherwise; a
\* mutation is made only at such a dimension, from three donors drawn in the
\* step just before it for that dimension; a copy is made only at the other
\* dimensions; each step of the construction writes u[i][k] and nothing else
\* of u; with CR = 0 the only dimension mutated is rnbr and every other
\* component is the target's; and the trial is evaluated only after all d
\* components have been written.
TrialBuiltPerDimension ==
    /\ [](pc = "for_k" =>
            \A kk \in 0 .. k - 1 :
                IF CrossesAt(kk)
                THEN u[i][kk] \in MutationValues(i, kk)
                ELSE u[i][kk] = Cur[i][kk])
    /\ [](pc = "for_k" /\ CR = 0 =>
            \A kk \in 0 .. k - 1 : kk # rnbr => u[i][kk] = Cur[i][kk])
    /\ [][pc' = "mutate" =>
            /\ pc = "for_k" /\ k < d /\ CrossesAt(k)
            /\ CR = 0 => k = rnbr
            /\ <<r1', r2', r3'>> \in FreshDonors(i)
            /\ u' = u]_vars
    /\ [][pc = "mutate" =>
            /\ u' = [u EXCEPT ![i][k] = Mut(Cur, F, r1, r2, r3, k)]
            /\ k' = k + 1 /\ pc' = "for_k"]_vars
    /\ [][pc = "for_k" /\ pc' = "for_k" =>
            /\ k < d /\ ~CrossesAt(k)
            /\ u' = [u EXCEPT ![i][k] = Cur[i][k]]
            /\ k' = k + 1]_vars
    /\ [][pc = "for_k" /\ pc' = "for_i" => k = d]_vars
    /\ [][mem' # mem /\ pc \in {"for_k", "mutate"} => pc = "for_k" /\ k = d]_vars

\* a finished two-dimensional trial vector built with CR = 0: the component
\* at rnbr has been changed by the mutation, the other is the target's
OneDimensionMutated ==
    /\ pc = "for_k" /\ k = d /\ d = DefaultD
    /\ CR = 0
    /\ u[i][rnbr] # Cur[i][rnbr]
    /\ u[i][1 - rnbr] = Cur[i][1 - rnbr]
    /\ Cur[i][1 - rnbr] # 0

\* ---- check_param and check_obj_func -------------------------------------
\* whether f(x) returns for a vector x of dim components: rosenbrock loops
\* over range(d-1); easom unpacks x1, x2 = x
Accepts(fn, dim) == fn = "rosenbrock" \/ dim = 2

\* init_population(1,d)[0]: np.random.rand(1,d) raises for a d that is not
\* an integer or is negative, and the call is outside the try block
check_obj_func(fn, dim, tdim) ==
    IF tdim # "int" \/ dim < 0 THEN "numpy_error"
    ELSE IF ~Accepts(fn, dim) THEN "-1"
    ELSE "0"

\* The outcome of check_param: "ok" for return 0, "numpy_error" for the
\* exception of np.random.rand, otherwise the argument the raised message
\* is about.  t holds the Python types of the arguments.
check_param(pNP, pf, pCR, pF, pmax_gen, pd, pbounds, t) ==
    LET o == check_obj_func(pf, pd, t.d)
    IN  IF o = "numpy_error" THEN "numpy_error"
        ELSE IF o = "-1" THEN "f"
        ELSE IF t.NP # "int" \/ pNP < MinNP THEN "NP"
        ELSE IF t.CR # "float" \/ (pCR < 0 \/ pCR > Unit) THEN "CR"
        ELSE IF t.F # "float" \/ (pF <= 0 \/ pF > MaxF) THEN "F"
        ELSE IF t.max_gen # "int" \/ pmax_gen <= 0 THEN "max_gen"
        ELSE IF t.d # "int" \/ pd <= 0 THEN "d"
        ELSE IF Len(pbounds) # 2 THEN "obj_bounds"
        ELSE IF pbounds[1] >= pbounds[2] THEN "obj_bounds"
        ELSE "ok"

PyTypes == {"int", "float"}

InitCP ==
    /\ NP \in (MinNP - 1) .. MinNP
    /\ f \in {"rosenbrock", "easom"}
    /\ CR \in {-1, 0, 1, Unit, Unit + 1}
    /\ F \in {0, 1, MaxF, MaxF + 1}
    /\ max_gen \in -1 .. 1
    /\ d \in -1 .. DefaultD
    /\ obj_bounds \in {<<0, 1>>, <<1, 1>>, <<0>>}
    /\ ty \in [NP : PyTypes, CR : PyTypes, F : PyTypes, max_gen : PyTypes, d : PyTypes]
    /\ ty.CR = "int" => CR % Unit = 0
    /\ cp_result = "none"
    /\ mem = [a0 |-> << >>, g |-> << >>]
    /\ x = "a0" /\ x_g = "g" /\ u = << >>
    /\ n_gen = 0 /\ i = 0 /\ k = 0 /\ rnbr = 0 /\ randb = << >>
    /\ r1 = 0 /\ r2 = 0 /\ r3 = 0
    /\ idx_best = 0 /\ ret = << >>
    /\ best_sol = << >> /\ best_score = 0
    /\ xprev = << >> /\ visits = << >> /\ init_fit = 0
    /\ rs_first = << >> /\ rs_drawn = << >>
    /\ pc = "cp_call"

CP_Call ==
    /\ pc = "cp_call"
    /\ cp_result' = check_param(NP, f, CR, F, max_gen, d, obj_bounds, ty)
    /\ pc' = "cp_done"
    /\ UNCHANGED <<args, ty, arrays, loopv, donors, result, hist, rsv>>

NextCP == CP_Call

SpecCP == InitCP /\ [][NextCP]_vars

\* ---- rand_search --------------------------------------------------------
\* (mutation of RSBetter: the comparison is reversed)
RSWorse(score, best) == score > best

\* if score < best_score
RSBetter(score, best) == score < best

\* the least of a set of numbers as a sequence: empty for the empty set
Least(S) == IF S = {} THEN << >> ELSE <<CHOOSE m \in S : \A n \in S : m <= n>>

\* the fitness values of the members js of population p
FitnessOf(fn, p, js, dim) == { Fitness(fn, p[j], dim) : j \in js }

InitRS ==
    /\ d \in 1 .. DefaultD
    /\ NP \in 1 .. MaxNP
    /\ NP * d < MaxNP
    /\ f \in {"rosenbrock", "sphere"}
    /\ max_gen \in 0 .. MaxGen
    /\ obj_bounds = <<0, MaxUb + 1>>
    /\ CR = 0 /\ F = 0
    /\ Idle
    /\ pc = "rs_start"

\* x = init_population(...); best_sol = x[0]; best_score = f(x[0]); n_gen = 0
RS_Start ==
    /\ pc = "rs_start"
    /\ \E p \in init_population(NP, d, obj_bounds[1], obj_bounds[2]) :
        /\ mem' = [mem EXCEPT !.a0 = p]
        /\ best_sol' = p[0]
        /\ best_score' = Fitness(f, p[0], d)
        /\ rs_first' = [head |-> p[0], rest |-> Least(FitnessOf(f, p, 1 .. NP - 1, d))]
    /\ n_gen' = 0
    /\ pc' = "rs_while"
    /\ UNCHANGED <<args, cpv, x, x_g, u, i, k, rnbr, randb, donors, result, hist, rs_drawn>>

\* while n_gen < max_gen: x = init_population(...); for v in x:
RS_NewPopulation ==
    /\ pc = "rs_while"
    /\ n_gen < max_gen
    /\ \E p \in init_population(NP, d, obj_bounds[1], obj_bounds[2]) :
        /\ mem' = [mem EXCEPT !.a0 = p]
        /\ rs_drawn' = Least(FitnessOf(f, p, 0 .. NP - 1, d)
                              \cup { rs_drawn[j] : j \in DOMAIN rs_drawn })
    /\ i' = 0
    /\ pc' = "rs_for"
    /\ UNCHANGED <<args, cpv, x, x_g, u, n_gen, k, rnbr, randb, donors, result, hist,
                   best_sol, best_score, rs_first>>

\* score = f(v); if score < best_score: best_score = score; best_sol = v
RS_Better ==
    /\ pc = "rs_for"
    /\ i < NP
    /\ RSBetter(Fitness(f, Cur[i], d), best_score)
    /\ best_score' = Fitness(f, Cur[i], d)
    /\ best_sol' = Cur[i]
    /\ i' = i + 1
    /\ UNCHANGED <<args, cpv, arrays, n_gen, k, rnbr, randb, donors, result, hist, pc,
                   rs_first, rs_drawn>>

RS_NotBetter ==
    /\ pc = "rs_for"
    /\ i < NP
    /\ ~RSBetter(Fitness(f, Cur[i], d), best_score)
    /\ i' = i + 1
    /\ UNCHANGED <<args, cpv, arrays, n_gen, k, rnbr, randb, donors, result, hist, pc, rsv>>

\* n_gen+=1
RS_EndGeneration ==
    /\ pc = "rs_for"
    /\ i >= NP
    /\ n_gen' = n_gen + 1
    /\ pc' = "rs_while"
    /\ UNCHANGED <<args, cpv, arrays, i, k, rnbr, randb, donors, result, hist, rsv>>

\* return best_sol
RS_Return ==
    /\ pc = "rs_while"
    /\ ~(n_gen < max_gen)
    /\ ret' = best_sol
    /\ pc' = "rs_done"
    /\ UNCHANGED <<args, cpv, arrays, loopv, donors, idx_best, hist, rsv>>

NextRS ==
    \/ RS_Start
    \/ RS_NewPopulation
    \/ RS_Better
    \/ RS_NotBetter
    \/ RS_EndGeneration
    \/ RS_Return

SpecRS == InitRS /\ [][NextRS]_vars

\* ---- pick_rand_idx, one draw per step -----------------------------------
InitPick ==
    /\ NP \in MinNP .. MaxNP + 1
    /\ \E t \in 0 .. MaxNP : t < NP /\ i = t
    /\ f = "none" /\ CR = 0 /\ F = 0 /\ max_gen = 0 /\ d = 0 /\ obj_bounds = << >>
    /\ ty = << >> /\ cp_result = "none"
    /\ mem = [a0 |-> << >>, g |-> << >>]
    /\ x = "a0" /\ x_g = "g" /\ u = << >>
    /\ n_gen = 0 /\ k = 0 /\ rnbr = 0 /\ randb = << >>
    /\ r1 = 0 /\ r2 = 0 /\ r3 = 0
    /\ idx_best = 0 /\ ret = << >>
    /\ best_sol = << >> /\ best_score = 0
    /\ xprev = << >> /\ visits = << >> /\ init_fit = 0
    /\ rs_first = << >> /\ rs_drawn = << >>
    /\ pc = "pick"

pickframe == <<args, cpv, arrays, loopv, result, hist, rsv>>

\* r1,r2,r3 = np.random.randint(0,NP,3)
PR_Draw3 ==
    /\ pc = "pick"
    /\ r1' \in RandInt(NP)
    /\ r2' \in RandInt(NP)
    /\ r3' \in RandInt(NP)
    /\ pc' = "w1"
    /\ UNCHANGED pickframe

\* while (r1==i): r1 = np.random.randint(0,NP)
PR_Redraw1(v) ==
    /\ pc = "w1"
    /\ Loop1(r1, i)
    /\ v \in RandInt(NP)
    /\ r1' = v
    /\ UNCHANGED <<pickframe, r2, r3, pc>>

PR_Exit1 ==
    /\ pc = "w1"
    /\ ~Loop1(r1, i)
    /\ pc' = "w2"
    /\ UNCHANGED <<pickframe, donors>>

\* while (r2==r1) or (r2==i): r2 = np.random.randint(0,NP)
PR_Redraw2(v) ==
    /\ pc = "w2"
    /\ Loop2(r2, r1, i)
    /\ v \in RandInt(NP)
    /\ r2' = v
    /\ UNCHANGED <<pickframe, r1, r3, pc>>

PR_Exit2 ==
    /\ pc = "w2"
    /\ ~Loop2(r2, r1, i)
    /\ pc' = "w3"
    /\ UNCHANGED <<pickframe, donors>>

\* while (r3==r2) or (r3==r1) or (r3==i): r3 = np.random.randint(0,NP)
PR_Redraw3(v) ==
    /\ pc = "w3"
    /\ Loop3(r3, r2, r1, i)
    /\ v \in RandInt(NP)
    /\ r3' = v
    /\ UNCHANGED <<pickframe, r1, r2, pc>>

\* return r1,r2,r3
PR_Exit3 ==
    /\ pc = "w3"
    /\ ~Loop3(r3, r2, r1, i)
    /\ pc' = "pick_ret"
    /\ UNCHANGED <<pickframe, donors>>

NextPick ==
    \/ PR_Draw3
    \/ \E v \in 0 .. MaxNP : PR_Redraw1(v)
    \/ PR_Exit1
    \/ \E v \in 0 .. MaxNP : PR_Redraw2(v)
    \/ PR_Exit2
    \/ \E v \in 0 .. MaxNP : PR_Redraw3(v)
    \/ PR_Exit3

\* the value v is drawn in whichever loop is resampling
PR_Redraw(v) == PR_Redraw1(v) \/ PR_Redraw2(v) \/ PR_Redraw3(v)

\* a loop whose condition is false is left
PR_Exit == PR_Exit1 \/ PR_Exit2 \/ PR_Exit3

\* Fair random draws: the call keeps running, and every value that
\* randint can draw is drawn eventually while a loop keeps resampling.
FairPick ==
    /\ WF_vars(PR_Draw3)
    /\ WF_vars(PR_Exit)
    /\ \A v \in 0 .. MaxNP : WF_vars(PR_Redraw(v))

SpecPick == InitPick /\ [][NextPick]_vars /\ FairPick

\* ======================= properties of pick_rand_idx =====================

\* C3: for every NP >= 4 and every i in [0, NP), the triple that
\* pick_rand_idx(i, NP) returns lies in [0, NP), is pairwise distinct and
\* contains no index equal to i, whatever the draws were.
DonorsDistinct ==
    (pc = "pick_ret" /\ NP >= MinNP) =>
        /\ {r1, r2, r3} \subseteq 0 .. NP - 1
        /\ Cardinality({r1, r2, r3, i}) = 4

\* a call with the smallest legal population has returned
DonorsReturned ==
    pc = "pick_ret" /\ NP = MinNP /\ i = 0 /\ r1 = 3

\* the values that end the loop the sampler is in
Admissible ==
    CASE pc = "w1" -> { v \in RandInt(NP) : ~Loop1(v, i) }
      [] pc = "w2" -> { v \in RandInt(NP) : ~Loop2(v, r1, i) }
      [] pc = "w3" -> { v \in RandInt(NP) : ~Loop3(v, r2, r1, i) }
      [] OTHER -> {0}

\* C4: for every NP >= 4 and every i, under fair draws every call of
\* pick_rand_idx returns, and in every loop it passes through at least one
\* value that ends the loop can still be drawn.
PickTerminates ==
    /\ [](NP >= MinNP => Admissible # {})
    /\ (NP >= MinNP) ~> (pc = "pick_ret")

\* the third loop is resampling with a single admissible value left
LastLoopResamples ==
    /\ pc = "w3" /\ NP = MinNP
    /\ Loop3(r3, r2, r1, i)
    /\ Cardinality(Admissible) = 1

\* ======================= properties of check_param =======================

\* the arguments whose documented constraint the call violates; the
\* objective is at fault only for a legal d it cannot handle
Violated ==
    { p \in {"NP", "CR", "F", "max_gen", "d", "obj_bounds", "f"} :
        \/ p = "NP" /\ (ty.NP # "int" \/ NP < MinNP)
        \/ p = "CR" /\ (CR < 0 \/ CR > Unit)
        \/ p = "F" /\ (F <= 0 \/ F > MaxF)
        \/ p = "max_gen" /\ (ty.max_gen # "int" \/ max_gen <= 0)
        \/ p = "d" /\ (ty.d # "int" \/ d <= 0)
        \/ p = "obj_bounds" /\ (Len(obj_bounds) # 2 \/ obj_bounds[1] >= obj_bounds[2])
        \/ p = "f" /\ (ty.d = "int" /\ d > 0) /\ ~Accepts(f, d) }

\* C9: a call of check_param whose arguments violate a documented
\* constraint fails with an error about an argument whose constraint is
\* violated, an error is never about an argument whose constraint holds, and
\* the call returns 0 only when every constraint holds.
NamesViolatedParameter ==
    pc = "cp_done" =>
        /\ Violated # {} => cp_result \in Violated
        /\ cp_result # "ok" => cp_result \in Violated
        /\ cp_result = "ok" => Violated = {}

\* ======================== properties of rand_search ======================

\* C10 as stated: the returned vector is at least as fit as every vector of
\* every population the call drew.
BestOfAllDrawn ==
    pc = "rs_done" =>
        \A m \in {Fitness(f, rs_first.head, d)}
                 \cup { rs_first.rest[j] : j \in DOMAIN rs_first.rest }
                 \cup { rs_drawn[j] : j \in DOMAIN rs_drawn } :
            Fitness(f, ret, d) <= m

\* C10 amended: rand_search draws a new population in each of its max_gen
\* generations and evaluates every member of it; the returned vector is at
\* least as fit as every vector drawn in the generation loop and as member 0
\* of the initial population (the other members of the initial population
\* are never evaluated), and the running best fitness never increases.
BestOfEvaluated ==
    /\ [](pc = "rs_done" =>
            /\ n_gen = max_gen
            /\ ret = best_sol
            /\ \A m \in {Fitness(f, rs_first.head, d)}
                        \cup { rs_drawn[j] : j \in DOMAIN rs_drawn } :
                Fitness(f, ret, d) <= m)
    /\ [](pc \in {"rs_while", "rs_done"} =>
            /\ best_score = Fitness(f, best_sol, d)
            /\ \E m \in {Fitness(f, rs_first.head, d)}
                        \cup { rs_drawn[j] : j \in DOMAIN rs_drawn } :
                best_score = m)
    /\ [][pc # "rs_start" => best_score' <= best_score]_vars

\* a call has returned a vector that is less fit than an unevaluated member
\* of its initial population
InitialMemberFitter ==
    /\ pc = "rs_done" /\ max_gen >= 1
    /\ rs_first.rest # << >>
    /\ rs_first.rest[1] < Fitness(f, ret, d)

====
